---- MODULE Spec2Model ----
(***************************************************************************)
(* A model of src/shell/shell.py: a line-oriented shell that parses a line *)
(* into a pipeline (parse_line), runs built-ins in-process                 *)
(* (handle_builtin) and otherwise forks one child per stage, wires the     *)
(* children with pipes and waits for them unless the line was backgrounded *)
(* (execute_pipeline), all driven by the read-eval loop (main).            *)
(*                                                                         *)
(* Text is modelled as sequences of one-character strings, so strip, split *)
(* and endswith are computed as Python computes them.  Stage indices are   *)
(* 1-based here (stage i of the source is stage i+1 of the model).         *)
(***************************************************************************)
EXTENDS Naturals, Sequences, FiniteSets

(***************************************************************************)
(* Bounds of the model.                                                    *)
(***************************************************************************)
\* calls of execute_pipeline in one run of the shell
MaxJobs == 2
\* interactive interrupts (SIGINT) delivered in one run of the shell
MaxIntr == 1
\* process-table entries: children of the shell that exist at one time,
\* running or terminated and not yet waited for
MaxProcs == 3

(***************************************************************************)
(* Text helpers: Python's str methods on sequences of characters.          *)
(***************************************************************************)
None == <<>>

Range(s) == { s[k] : k \in 1..Len(s) }

\* str.isspace for one character
IsSpace(c) == c \in {" ", "\n", "\t"}

RECURSIVE LStrip(_)
LStrip(s) == IF s # <<>> /\ IsSpace(s[1]) THEN LStrip(Tail(s)) ELSE s

RECURSIVE RStrip(_)
RStrip(s) ==
    IF s # <<>> /\ IsSpace(s[Len(s)]) THEN RStrip(SubSeq(s, 1, Len(s) - 1)) ELSE s

\* str.strip()
Strip(s) == RStrip(LStrip(s))

\* str.endswith(c) for a one-character suffix
EndsWith(s, c) == s # <<>> /\ s[Len(s)] = c

\* str.split(d) for a one-character separator: always at least one part,
\* empty parts are kept
RECURSIVE SplitOn(_, _)
SplitOn(s, d) ==
    IF \E k \in 1..Len(s) : s[k] = d
    THEN LET k == CHOOSE k \in 1..Len(s) : s[k] = d /\ \A m \in 1..(k - 1) : s[m] # d
         IN  <<SubSeq(s, 1, k - 1)>> \o SplitOn(SubSeq(s, k + 1, Len(s)), d)
    ELSE <<s>>

\* str.split() without a separator: the maximal runs of non-whitespace
RECURSIVE SplitWS(_)
SplitWS(s) ==
    LET t == LStrip(s)
    IN  IF t = <<>> THEN <<>>
        ELSE LET n == IF \E k \in 1..Len(t) : IsSpace(t[k])
                      THEN (CHOOSE k \in 1..Len(t) :
                                IsSpace(t[k]) /\ \A m \in 1..(k - 1) : ~IsSpace(t[m])) - 1
                      ELSE Len(t)
             IN  <<SubSeq(t, 1, n)>> \o SplitWS(SubSeq(t, n + 1, Len(t)))

(***************************************************************************)
(* parse_line (shell.py 30-69).                                            *)
(***************************************************************************)
LT == <<"<">>
GT == <<">">>

\* the while loop over one stage's tokens (49-58); raise is the IndexError
\* of tokens[i+1] when the operator is the last token
RECURSIVE WalkTokens(_, _, _)
WalkTokens(tokens, i, acc) ==
    IF i > Len(tokens) THEN acc
    ELSE IF tokens[i] = LT
         THEN IF i + 1 > Len(tokens) THEN [acc EXCEPT !.raise = TRUE]
              ELSE WalkTokens(tokens, i + 2, [acc EXCEPT !.stdin = tokens[i + 1]])
    ELSE IF tokens[i] = GT
         THEN IF i + 1 > Len(tokens) THEN [acc EXCEPT !.raise = TRUE]
              ELSE WalkTokens(tokens, i + 2, [acc EXCEPT !.stdout = tokens[i + 1]])
    ELSE WalkTokens(tokens, i + 1, [acc EXCEPT !.argv = Append(@, tokens[i])])

\* one iteration of "for part in parts" (43-58)
ParseStage(part) ==
    WalkTokens(SplitWS(part), 1,
               [argv |-> <<>>, stdin |-> None, stdout |-> None, raise |-> FALSE])

\* faulty variant: the two redirections of a stage are mixed up
StageSwapped(w) == [argv |-> w.argv, stdin |-> w.stdout, stdout |-> w.stdin]

\* the dictionary appended for a stage (63-67)
StageOf(w) == [argv |-> w.argv, stdin |-> w.stdin, stdout |-> w.stdout]

\* the loop over the parts, left to right (43-67): the first part that
\* raises or has no command decides the result
RECURSIVE ParseParts(_, _)
ParseParts(parts, pipeline) ==
    IF parts = <<>> THEN [kind |-> "ok", pipeline |-> pipeline]
    ELSE LET w == ParseStage(Strip(Head(parts)))
         IN  IF w.raise THEN [kind |-> "raise", pipeline |-> <<>>]
             ELSE IF w.argv = <<>> THEN [kind |-> "none", pipeline |-> <<>>]
             ELSE ParseParts(Tail(parts), Append(pipeline, StageOf(w)))

\* line.endswith("&") on the stripped line (31, 36)
IsBackground(line) == EndsWith(Strip(line), "&")

\* the line after the optional trailing & is cut off (36-38)
Body(line) ==
    LET s == Strip(line)
    IN  IF EndsWith(s, "&") THEN Strip(SubSeq(s, 1, Len(s) - 1)) ELSE s

\* kind: "none" (return None), "raise" (IndexError) or "ok"
parse_line(line) ==
    IF Strip(line) = <<>>
    THEN [kind |-> "none", pipeline |-> <<>>, background |-> FALSE]
    ELSE LET r == ParseParts(SplitOn(Body(line), "|"), <<>>)
         IN  [kind |-> r.kind, pipeline |-> r.pipeline,
              background |-> IF r.kind = "ok" THEN IsBackground(line) ELSE FALSE]

(***************************************************************************)
(* resolve_path (shell.py 13-21) in a fixed environment.                   *)
(***************************************************************************)
\* os.environ["PATH"]
PATH == <<"/", "b", ":", "/", "u">>

\* the paths for which os.access(path, os.X_OK) holds
X_OK ==
    { <<"/", "b", "/", "a">>, <<"/", "u", "/", "a">>, <<"/", "u", "/", "k">>,
      <<"/", "b", "/", "s", "/", "a">> }

\* executable by its mode bits, yet os.execve of it raises (no valid image)
ExecFails == { <<"/", "u", "/", "k">> }

\* the for loop over the directories of PATH (17-21)
RECURSIVE SearchDirs(_, _)
SearchDirs(dirs, cmd) ==
    IF dirs = <<>> THEN None
    ELSE LET full == Head(dirs) \o <<"/">> \o cmd
         IN  IF full \in X_OK THEN full ELSE SearchDirs(Tail(dirs), cmd)

\* faulty variant: every name is looked up in the directories of PATH
SearchAlways(cmd) == SearchDirs(SplitOn(PATH, ":"), cmd)

resolve_path(cmd) ==
    IF "/" \in Range(cmd)
    THEN IF cmd \in X_OK THEN cmd ELSE None
    ELSE SearchDirs(SplitOn(PATH, ":"), cmd)

(***************************************************************************)
(* The input: every line the shell may be given, as readline returns it.   *)
(***************************************************************************)
LineTexts ==
    { <<"a">>,                                      \* a
      <<"n", " ", "|", " ", "a">>,                  \* n | a  (n: no such command)
      <<"a", "|", "a", "|", "a">>,                  \* a|a|a
      <<"a", " ", "&">>,                            \* a &
      <<"k", "|", "a", "&">>,                       \* k|a&  (k: exec fails)
      <<"a", " ", "<", " ", "g">>,                  \* a < g  (g does not exist)
      <<"a", " ", "<">>,                            \* a <
      <<"<">>,                                      \* <
      <<"<", " ", "f">>,                            \* < f
      <<"|">>,                                      \* |
      <<"&">>,                                      \* &
      <<"a", "|", "|", "a">>,                       \* a||a
      <<>>,                                         \* the empty line
      <<"e", "x", "i", "t">>,                       \* exit
      <<"c", "d">>,                                 \* cd
      <<"c", "d", " ", "g">> }                      \* cd g   (g is no directory)

Lines == { t \o <<"\n">> : t \in LineTexts }

\* every input line with what parse_line makes of it (177)
Inputs == { [line |-> l, parsed |-> parse_line(l)] : l \in Lines }

(***************************************************************************)
(* The file system and the descriptors.                                    *)
(***************************************************************************)
\* a descriptor refers to the terminal, to a file, or to one end of a pipe;
\* a pipe is named by the call that created it and its position in "pipes"
NoPipe == <<0, 0>>
Tty == [kind |-> "tty", pipe |-> NoPipe, name |-> <<>>]
Closed == [kind |-> "closed", pipe |-> NoPipe, name |-> <<>>]
FileOf(n) == [kind |-> "file", pipe |-> NoPipe, name |-> n]
ReadEnd(k) == [kind |-> "r", pipe |-> k, name |-> <<>>]
WriteEnd(k) == [kind |-> "w", pipe |-> k, name |-> <<>>]

\* files that exist but cannot be opened for writing
ReadOnly == { <<"r">> }

\* directories os.chdir accepts
Dirs == { <<"/">>, <<"/", "h">>, <<"/", "t">> }

\* os.environ["HOME"]
HOME == <<"/", "h">>

\* termination statuses as os.waitpid reports them
NoStatus == [kind |-> "none", code |-> 0]
Exited(c) == [kind |-> "exit", code |-> c]
Signaled == [kind |-> "signal", code |-> 0]

\* what a program that was exec'ed may end with
ProgramStatuses == { Exited(0), Exited(2), Signaled }

\* the lines written to the error stream
NotFoundMsg(name) == <<"command not found", name>>
ExitCodeMsg(c) == <<"Program terminated with exit code", c>>
AbnormalMsg == <<"Program terminated abnormally.">>
\* an uncaught exception: the interpreter writes the header of the traceback,
\* the frames (left out here) and the line of the exception
TracebackMsg(e) ==
    << <<"Traceback (most recent call last):">>, <<"Error", e>> >>
ChdirMsg(d) == <<"No such file or directory", d>>

VARIABLES
    pc,        \* where the shell is: read, pipe, fork, close, wait, done
    ended,     \* why the shell process ended: "" while it runs
    line,      \* the line being executed
    jobs,      \* the calls of execute_pipeline: jobs[njobs] is the latest
    njobs,     \* calls of execute_pipeline so far
    shellfds,  \* the pipe ends the shell process holds
    proc,      \* the process table: the shell's children
    stderr,    \* the lines the shell wrote to its error stream for this line
    files,     \* the file system: absent, orig (as found), trunc
    cwd,       \* the shell's working directory
    nintr      \* interrupts delivered so far

vars == <<pc, ended, line, jobs, njobs, shellfds, proc, stderr, files, cwd,
          nintr>>

Pids == 1..MaxProcs
JobIds == 1..MaxJobs

\* a free entry of the process table
NoProc == [st |-> "none", job |-> 0, idx |-> 0, n |-> 0,
           cmd |-> [argv |-> <<>>, stdin |-> None, stdout |-> None],
           pipes |-> <<>>, fds |-> {}, in |-> Closed, out |-> Closed,
           wired |-> FALSE, status |-> NoStatus, err |-> <<>>,
           stray |-> FALSE, image |-> None]

\* a call of execute_pipeline: its arguments and locals (pipeline,
\* background, pipes, pids), the pids waited for so far, whether the close
\* loop has run, and where the call is: free, active, returned, interrupted
NoJob == [state |-> "free", pipeline |-> <<>>, background |-> FALSE,
          pipes |-> <<>>, pids |-> <<>>, reaped |-> <<>>, closed |-> FALSE]

\* what is kept of a call once the shell has left it
Left(f, how) ==
    [NoJob EXCEPT !.state = how, !.background = f.background,
                  !.pipes = f.pipes, !.closed = f.closed]

Init ==
    /\ pc = "read"
    /\ ended = ""
    /\ line = <<>>
    /\ jobs = [j \in JobIds |-> NoJob]
    /\ njobs = 0
    /\ shellfds = {}
    /\ proc = [p \in Pids |-> NoProc]
    /\ stderr = <<>>
    /\ files = [n \in { <<"f">>, <<"g">>, <<"r">> } |->
                    IF n = <<"g">> THEN "absent" ELSE "orig"]
    /\ cwd = <<"/">>
    /\ nintr = 0

Alive(p) == proc[p].st \in {"setup", "resolve", "running", "readloop"}

\* process p holds descriptor d: as one of the descriptors above 2, or as
\* its standard input or output
Holds(p, d) ==
    Alive(p) /\ (d \in proc[p].fds \/ proc[p].in = d \/ proc[p].out = d)

Holders(d) == { p \in Pids : Holds(p, d) }

\* the processes of call j that are in the process table
ProcsOf(j) == { p \in Pids : proc[p].job = j }

FreePids == { p \in Pids : proc[p].st = "none" }

Min(S) == CHOOSE x \in S : \A y \in S : x <= y

\* the record of a call that was left is dropped with its last process
Forget(js) ==
    [j \in JobIds |->
        IF js[j].state \in {"returned", "interrupted"} /\ ProcsOf(j) = {}
        THEN NoJob ELSE js[j]]

(***************************************************************************)
(* The shell process: main (167-193), handle_builtin (75-89) and the       *)
(* parent's side of execute_pipeline (95-161).                             *)
(***************************************************************************)
EXIT == <<"e", "x", "i", "t">>
CD == <<"c", "d">>

\* range(num_cmds - 1) (99)
NumPipes(n) == n - 1

\* both ends of every pipe of the list: what "for r, w in pipes" closes
PipeEnds(pipes) ==
    { ReadEnd(pipes[k]) : k \in 1..Len(pipes) } \cup
    { WriteEnd(pipes[k]) : k \in 1..Len(pipes) }

\* faulty variant: the parent closes the read ends only
ParentClosesReadEnds(pipes) == { ReadEnd(pipes[k]) : k \in 1..Len(pipes) }

\* faulty variant: the parent closes nothing
ParentClosesNothing(pipes) == {}

\* the parent's close loop (148-150)
ParentCloses(pipes) == PipeEnds(pipes)

\* faulty variant: the parent waits for every pipeline
AlwaysWait(background) == TRUE

\* "if not background" (153)
ShouldWait(background) == ~background

\* faulty variant: the parent waits for the last stage first
WaitReversed(pids, k) == pids[Len(pids) + 1 - k]

\* "for pid in pids" (154): the pid of the k-th iteration
WaitTarget(pids, k) == pids[k]

\* faulty variant: the exit code is reported even when it is 0
ReportEveryCode(st) ==
    IF st.kind = "exit" THEN <<ExitCodeMsg(st.code)>> ELSE <<AbnormalMsg>>

\* the report of one waited process (156-161)
Report(st) ==
    IF st.kind = "exit"
    THEN IF st.code # 0 THEN <<ExitCodeMsg(st.code)>> ELSE <<>>
    ELSE <<AbnormalMsg>>

\* faulty variant: the built-ins are consulted for the first stage of any
\* pipeline
BuiltinOfFirstStage(pipeline) ==
    IF pipeline[1].argv[1] \in {EXIT, CD} THEN pipeline[1].argv[1] ELSE None

\* "len(pipeline) == 1 and handle_builtin(...)" (184): which built-in, if any
Builtin(pipeline) ==
    IF Len(pipeline) = 1 /\ pipeline[1].argv[1] \in {EXIT, CD}
    THEN pipeline[1].argv[1]
    ELSE None

\* the directory cd changes to (81-84)
CdTarget(argv) == IF Len(argv) > 1 THEN argv[2] ELSE HOME

\* the shell process ends: its memory and its descriptors are gone, and
\* its children are no longer its own (they are not followed any further)
ShellEnds(how) ==
    /\ pc' = "done"
    /\ ended' = how
    /\ jobs' = [j \in JobIds |-> NoJob]
    /\ njobs' = 0
    /\ nintr' = 0
    /\ shellfds' = {}
    /\ proc' = [p \in Pids |-> NoProc]
    /\ UNCHANGED <<files, cwd>>

\* end of input: readline returns "" and the loop breaks (174-175)
ReadEOF ==
    /\ pc = "read"
    /\ ShellEnds("eof")
    /\ line' = <<>>
    /\ stderr' = <<>>

\* parse_line returns None and the loop continues (177-179)
NoOp(e) ==
    /\ e.parsed.kind = "none"
    /\ line' = <<>>
    /\ jobs' = Forget(jobs)
    /\ stderr' = <<>>
    /\ UNCHANGED <<pc, ended, njobs, shellfds, proc, files, cwd, nintr>>

\* parse_line raises IndexError, which main does not catch (51, 54, 189-193)
Raise(e) ==
    /\ e.parsed.kind = "raise"
    /\ ShellEnds("IndexError")
    /\ line' = e.line
    /\ stderr' = TracebackMsg("IndexError")

\* the exit built-in: sys.exit(0) (76-77)
BuiltinExit(e) ==
    /\ e.parsed.kind = "ok"
    /\ Builtin(e.parsed.pipeline) = EXIT
    /\ ShellEnds("exit")
    /\ line' = e.line
    /\ stderr' = <<>>

\* the cd built-in (79-87)
BuiltinCd(e) ==
    /\ e.parsed.kind = "ok"
    /\ Builtin(e.parsed.pipeline) = CD
    /\ LET d == CdTarget(e.parsed.pipeline[1].argv)
       IN  IF d \in Dirs
           THEN cwd' = d /\ stderr' = <<>>
           ELSE cwd' = cwd /\ stderr' = <<ChdirMsg(d)>>
    /\ line' = <<>>
    /\ jobs' = Forget(jobs)
    /\ UNCHANGED <<pc, ended, njobs, shellfds, proc, files, nintr>>

\* any other pipeline: execute_pipeline is entered (187, 96-97)
StartPipeline(e) ==
    /\ e.parsed.kind = "ok"
    /\ Builtin(e.parsed.pipeline) = None
    /\ njobs < MaxJobs
    /\ Len(e.parsed.pipeline) <= Cardinality(FreePids)
    /\ njobs' = njobs + 1
    /\ jobs' = [Forget(jobs) EXCEPT ![njobs + 1] =
                   [NoJob EXCEPT !.state = "active",
                                 !.pipeline = e.parsed.pipeline,
                                 !.background = e.parsed.background]]
    /\ pc' = IF NumPipes(Len(e.parsed.pipeline)) > 0 THEN "pipe" ELSE "fork"
    /\ line' = e.line
    /\ stderr' = <<>>
    /\ UNCHANGED <<ended, shellfds, proc, files, cwd, nintr>>

\* one iteration of the read-eval loop: readline returns a line, which is
\* parsed and dispatched (173-187)
ReadFrom(inputs) ==
    /\ pc = "read"
    /\ \E e \in inputs :
        \/ NoOp(e)
        \/ Raise(e)
        \/ BuiltinExit(e)
        \/ BuiltinCd(e)
        \/ StartPipeline(e)

ReadLine == ReadFrom(Inputs)

\* one iteration of the pipe loop (99-100)
CreatePipe ==
    /\ pc = "pipe"
    /\ LET k == <<njobs, Len(jobs[njobs].pipes) + 1>>
       IN  /\ shellfds' = shellfds \cup {ReadEnd(k), WriteEnd(k)}
           /\ jobs' = [jobs EXCEPT ![njobs].pipes = Append(@, k)]
           /\ pc' = IF Len(jobs[njobs].pipes) + 1
                          < NumPipes(Len(jobs[njobs].pipeline))
                    THEN "pipe" ELSE "fork"
    /\ UNCHANGED <<ended, line, njobs, proc, stderr, files, cwd, nintr>>

\* one iteration of the spawn loop, the parent's side (104-105, 145): the
\* child starts as a copy of the shell, with its memory and every
\* descriptor it holds
Fork ==
    /\ pc = "fork"
    /\ LET f == jobs[njobs]
           i == Len(f.pids) + 1
           p == Min(FreePids)
       IN  /\ proc' = [proc EXCEPT ![p] =
                          [NoProc EXCEPT !.st = "setup", !.job = njobs,
                                         !.idx = i, !.n = Len(f.pipeline),
                                         !.cmd = f.pipeline[i],
                                         !.pipes = f.pipes,
                                         !.fds = shellfds,
                                         !.in = Tty, !.out = Tty]]
           /\ jobs' = [jobs EXCEPT ![njobs].pids = Append(@, p)]
           /\ pc' = IF i < Len(f.pipeline) THEN "fork" ELSE "close"
    /\ UNCHANGED <<ended, line, njobs, shellfds, stderr, files, cwd, nintr>>

\* the parent closes the pipe ends (148-150) and either starts to wait or,
\* for a background pipeline, returns (153)
CloseFds ==
    /\ pc = "close"
    /\ shellfds' = shellfds \ ParentCloses(jobs[njobs].pipes)
    /\ LET f == [jobs[njobs] EXCEPT !.closed = TRUE]
       IN  IF ShouldWait(f.background)
           THEN /\ pc' = "wait"
                /\ jobs' = [jobs EXCEPT ![njobs] = f]
                /\ line' = line
           ELSE /\ pc' = "read"
                /\ jobs' = [jobs EXCEPT ![njobs] = Left(f, "returned")]
                /\ line' = <<>>
    /\ UNCHANGED <<ended, njobs, proc, stderr, files, cwd, nintr>>

\* one iteration of the wait loop (154-161): waitpid blocks until the
\* process has terminated and releases its process-table entry
Wait ==
    /\ pc = "wait"
    /\ LET f == jobs[njobs]
           p == WaitTarget(f.pids, Len(f.reaped) + 1)
           last == Len(f.reaped) + 1 = Len(f.pids)
       IN  /\ proc[p].st = "zombie"
           /\ proc' = [proc EXCEPT ![p] = NoProc]
           /\ stderr' = stderr \o Report(proc[p].status)
           /\ jobs' = [jobs EXCEPT ![njobs] =
                         IF last THEN Left(f, "returned")
                         ELSE [f EXCEPT !.reaped = Append(@, p)]]
           /\ line' = IF last THEN <<>> ELSE line
           /\ pc' = IF last THEN "read" ELSE "wait"
    /\ UNCHANGED <<ended, njobs, shellfds, files, cwd, nintr>>

\* SIGINT in the shell process inside execute_pipeline: KeyboardInterrupt is
\* raised wherever the shell is, execute_pipeline is abandoned, main prints
\* a newline and continues the loop (191-193).  (In readline the interrupt
\* changes nothing: the loop continues with the same state.)
Interrupt ==
    /\ pc \in {"pipe", "fork", "close", "wait"}
    /\ nintr < MaxIntr
    /\ nintr' = nintr + 1
    /\ pc' = "read"
    /\ jobs' = [jobs EXCEPT ![njobs] = Left(@, "interrupted")]
    /\ line' = <<>>
    /\ UNCHANGED <<ended, njobs, shellfds, proc, stderr, files, cwd>>

(***************************************************************************)
(* The child's side of execute_pipeline (106-142).                         *)
(***************************************************************************)
\* faulty variant: every open for reading succeeds
OpensAnything(n) == TRUE

\* os.open(path, O_RDONLY) succeeds (111)
CanOpenRead(n) == n \in DOMAIN files /\ files[n] # "absent"

\* os.open(path, O_WRONLY | O_CREAT | O_TRUNC) succeeds (117-118)
CanOpenWrite(n) == n \in DOMAIN files /\ n \notin ReadOnly

\* faulty variant: the redirection to a file is applied after the pipe
FileWinsStdin(i, cmd, pipes) ==
    IF cmd.stdin # None THEN FileOf(cmd.stdin)
    ELSE IF i > 1 THEN ReadEnd(pipes[i - 1])
    ELSE Tty

\* faulty variant: the redirection to a file is applied after the pipe
FileWinsStdout(i, n, cmd, pipes) ==
    IF cmd.stdout # None THEN FileOf(cmd.stdout)
    ELSE IF i < n THEN WriteEnd(pipes[i])
    ELSE Tty

\* standard input of stage i after 110-113 and 123-124: the dup2 of the
\* pipe comes last
WiredStdin(i, cmd, pipes) ==
    IF i > 1 THEN ReadEnd(pipes[i - 1])
    ELSE IF cmd.stdin # None THEN FileOf(cmd.stdin)
    ELSE Tty

\* standard output of stage i of n after 116-120 and 125-126
WiredStdout(i, n, cmd, pipes) ==
    IF i < n THEN WriteEnd(pipes[i])
    ELSE IF cmd.stdout # None THEN FileOf(cmd.stdout)
    ELSE Tty

\* faulty variant: the child closes no pipe descriptor
ChildClosesNothing(pipes) == {}

\* the child's close loop (129-131)
ChildCloses(pipes) == PipeEnds(pipes)

\* faulty variant: the process ends without having written its messages
DieQuietly(p, st, msgs) ==
    [NoProc EXCEPT !.st = "zombie", !.job = proc[p].job, !.idx = proc[p].idx,
                   !.wired = proc[p].wired, !.status = st,
                   !.err = proc[p].err, !.stray = proc[p].stray]

\* the process ends: the kernel closes every descriptor it held and keeps
\* the entry with its status until the parent waits for it
Die(p, st, msgs) ==
    [NoProc EXCEPT !.st = "zombie", !.job = proc[p].job, !.idx = proc[p].idx,
                   !.wired = proc[p].wired, !.status = st,
                   !.err = proc[p].err \o msgs, !.stray = proc[p].stray]

\* redirections, pipe wiring and the close loop (110-131); an os.open that
\* fails raises OSError, which nothing catches: the child ends with a
\* traceback and status 1
ChildWire(p) ==
    /\ proc[p].st = "setup"
    /\ LET cmd == proc[p].cmd
           i == proc[p].idx
       IN  IF cmd.stdin # None /\ ~CanOpenRead(cmd.stdin)
           THEN /\ proc' = [proc EXCEPT ![p] =
                              Die(p, Exited(1), TracebackMsg(cmd.stdin))]
                /\ files' = files
           ELSE IF cmd.stdout # None /\ ~CanOpenWrite(cmd.stdout)
           THEN /\ proc' = [proc EXCEPT ![p] =
                              Die(p, Exited(1), TracebackMsg(cmd.stdout))]
                /\ files' = files
           ELSE /\ proc' = [proc EXCEPT
                              ![p].st = "resolve",
                              ![p].wired = TRUE,
                              ![p].in = WiredStdin(i, cmd, proc[p].pipes),
                              ![p].out = WiredStdout(i, proc[p].n, cmd,
                                                     proc[p].pipes),
                              ![p].fds = @ \ ChildCloses(proc[p].pipes)]
                /\ files' = IF cmd.stdout # None
                            THEN [files EXCEPT ![cmd.stdout] = "trunc"]
                            ELSE files
    /\ UNCHANGED <<pc, ended, line, jobs, njobs, shellfds, stderr, cwd, nintr>>

\* resolve and exec (133-142); os.pipe makes its descriptors close-on-exec,
\* so a successful execve leaves the process with its standard streams
\* only, and the program that runs knows nothing of the shell's memory
ChildExec(p) ==
    /\ proc[p].st = "resolve"
    /\ LET name == proc[p].cmd.argv[1]
           path == resolve_path(name)
       IN  IF path = None \/ path \in ExecFails
           THEN proc' = [proc EXCEPT ![p] =
                           Die(p, Exited(1), <<NotFoundMsg(name)>>)]
           ELSE proc' = [proc EXCEPT ![p].st = "running", ![p].fds = {},
                                     ![p].pipes = <<>>, ![p].image = path]
    /\ UNCHANGED <<pc, ended, line, jobs, njobs, shellfds, stderr, files, cwd,
                   nintr>>

\* SIGINT in a child that has not exec'ed yet: KeyboardInterrupt leaves
\* execute_pipeline and is caught by the copy of main the child runs, which
\* continues its read loop (191-193) with every descriptor it holds
ChildInterrupt(p) ==
    /\ proc[p].st \in {"setup", "resolve"}
    /\ nintr < MaxIntr
    /\ nintr' = nintr + 1
    /\ proc' = [proc EXCEPT ![p].st = "readloop", ![p].stray = TRUE]
    /\ UNCHANGED <<pc, ended, line, jobs, njobs, shellfds, stderr, files, cwd>>

\* the exec'ed program ends, by exit or by a signal
ProgramExit(p) ==
    /\ proc[p].st = "running"
    /\ \E st \in ProgramStatuses :
           proc' = [proc EXCEPT ![p] = Die(p, st, <<>>)]
    /\ UNCHANGED <<pc, ended, line, jobs, njobs, shellfds, stderr, files, cwd,
                   nintr>>

\* a child that fell back into the read loop ends when its input ends (175)
StrayExit(p) ==
    /\ proc[p].st = "readloop"
    /\ proc' = [proc EXCEPT ![p] = Die(p, Exited(0), <<>>)]
    /\ UNCHANGED <<pc, ended, line, jobs, njobs, shellfds, stderr, files, cwd,
                   nintr>>

Child(p) ==
    \/ ChildWire(p)
    \/ ChildExec(p)
    \/ ChildInterrupt(p)
    \/ ProgramExit(p)
    \/ StrayExit(p)

Next ==
    \/ ReadEOF
    \/ ReadLine
    \/ CreatePipe
    \/ Fork
    \/ CloseFds
    \/ Wait
    \/ Interrupt
    \/ \E p \in Pids : Child(p)

Spec == Init /\ [][Next]_vars

(***************************************************************************)
(* Fairness: what the scheduler and the kernel guarantee.  The shell and   *)
(* every child that has not exec'ed yet take their next step; a program    *)
(* ends once it must: it does not read from a pipe, or the pipe it reads   *)
(* from has no writer left (end-of-file), or the pipe it writes to has no  *)
(* reader left.  Nothing is assumed of the user: of the lines typed, of    *)
(* interrupts, of the input of a child that fell back into the read loop.  *)
(***************************************************************************)
MustFinish(p) ==
    \/ proc[p].in.kind # "r"
    \/ WriteEnd(proc[p].in.pipe) \notin shellfds
         /\ Holders(WriteEnd(proc[p].in.pipe)) = {}
    \/ proc[p].out.kind = "w"
         /\ ReadEnd(proc[p].out.pipe) \notin shellfds
         /\ Holders(ReadEnd(proc[p].out.pipe)) = {}

Fairness ==
    /\ WF_vars(CreatePipe)
    /\ WF_vars(Fork)
    /\ WF_vars(CloseFds)
    /\ WF_vars(Wait)
    /\ \A p \in Pids : WF_vars(ChildWire(p))
    /\ \A p \in Pids : WF_vars(ChildExec(p))
    /\ \A p \in Pids : WF_vars(MustFinish(p) /\ ProgramExit(p))

LiveSpec == Init /\ [][Next]_vars /\ Fairness

(***************************************************************************)
(* The same shell on other inputs.                                         *)
(***************************************************************************)
\* every step but reading: the executor and the children
Run ==
    \/ CreatePipe
    \/ Fork
    \/ CloseFds
    \/ Wait
    \/ Interrupt
    \/ \E p \in Pids : Child(p)

\* lines that name a built-in, alone and as a stage of a pipeline
BuiltinTexts ==
    { <<"e", "x", "i", "t", "|", "a">>,                 \* exit|a
      <<"c", "d", " ", "/", "t", "|", "a">>,            \* cd /t|a
      <<"a">>,                                          \* a
      <<"c", "d">>,                                     \* cd
      <<"e", "x", "i", "t">> }                          \* exit

BuiltinInputs ==
    { [line |-> t \o <<"\n">>, parsed |-> parse_line(t \o <<"\n">>)] :
        t \in BuiltinTexts }

ReadBuiltins == ReadFrom(BuiltinInputs)

BuiltinSpec == Init /\ [][ReadEOF \/ ReadBuiltins \/ Run]_vars

\* lines with redirections in pipelines: g does not exist at the start, r
\* cannot be written
RedirTexts ==
    { <<"a", " ", "<", " ", "g", "|", "a">>,            \* a < g|a
      <<"a", "|", "a", " ", "<", " ", "f">>,            \* a|a < f
      <<"a", " ", ">", " ", "g", "|", "a">>,            \* a > g|a
      <<"a", " ", ">", " ", "r">>,                      \* a > r
      <<"a", " ", ">", " ", "f">> }                     \* a > f

RedirInputs ==
    { [line |-> t \o <<"\n">>, parsed |-> parse_line(t \o <<"\n">>)] :
        t \in RedirTexts }

ReadRedirs == ReadFrom(RedirInputs)

RedirSpec == Init /\ [][ReadEOF \/ ReadRedirs \/ Run]_vars

\* the parser alone: the shell reads one of all lines of up to MaxLen
\* characters and parses it; what parse_line returned is seen in the call of
\* execute_pipeline that is entered, or in the end of the shell
MaxLen == 5

Chars == { "a", " ", "|", "&", "<", ">" }

ShortTexts == UNION { [1..n -> Chars] : n \in 0..MaxLen }

ShortInputs ==
    { [line |-> t \o <<"\n">>, parsed |-> parse_line(t \o <<"\n">>)] :
        t \in ShortTexts }

ReadShort == ReadFrom(ShortInputs)

ParseSpec == Init /\ [][ReadEOF \/ ReadShort]_vars

\* the resolver: commands named with and without a slash, found in the
\* first or the second directory of PATH, in none, or not executable
NameTexts ==
    { <<"a">>,                                          \* a
      <<"k">>,                                          \* k
      <<"n">>,                                          \* n
      <<"/", "u", "/", "a">>,                           \* /u/a
      <<"/", "x">>,                                     \* /x
      <<"s", "/", "a">>,                                \* s/a
      <<"n", "|", "/", "b", "/", "a">> }                \* n|/b/a

NameInputs ==
    { [line |-> t \o <<"\n">>, parsed |-> parse_line(t \o <<"\n">>)] :
        t \in NameTexts }

ReadNames == ReadFrom(NameInputs)

ResolveSpec == Init /\ [][ReadEOF \/ ReadNames \/ Run]_vars

(***************************************************************************)
(* Properties.                                                             *)
(***************************************************************************)
\* the pipes call j creates for a pipeline of n stages
PipesOfCall(j, n) == [k \in 1..NumPipes(n) |-> <<j, k>>]

\* the call in progress
InCall == pc \in {"pipe", "fork", "close", "wait"}

\* C1: a pipeline of N stages gets exactly N-1 pipes, all created before the
\* first process is spawned; once execute_pipeline has returned the shell
\* holds neither end of any of them; and a stage process that has reached
\* resolve/exec has closed both ends of all N-1 pipes.
C1_PipesCreatedAndClosed ==
    /\ InCall =>
         LET f == jobs[njobs]
         IN  /\ Len(f.pipes) <= NumPipes(Len(f.pipeline))
             /\ f.pipes = SubSeq(PipesOfCall(njobs, Len(f.pipeline)), 1,
                                 Len(f.pipes))
             /\ pc = "pipe" => f.pids = <<>>
             /\ pc # "pipe" => Len(f.pipes) = NumPipes(Len(f.pipeline))
    /\ \A j \in JobIds :
         jobs[j].state = "returned" => shellfds \cap PipeEnds(jobs[j].pipes) = {}
    /\ \A p \in Pids :
         /\ proc[p].st \in {"setup", "resolve"} =>
                proc[p].pipes = PipesOfCall(proc[p].job, proc[p].n)
         /\ proc[p].st \in {"resolve", "running"} =>
                proc[p].fds \cap PipeEnds(PipesOfCall(proc[p].job, proc[p].n)) = {}

\* the shell has returned from a call that created a pipe, and a stage of
\* that pipeline is past its close loop
C1_Witness ==
    \E p \in Pids :
        /\ proc[p].st = "resolve"
        /\ proc[p].n = 2
        /\ jobs[proc[p].job].state = "returned"
        /\ jobs[proc[p].job].pipes = <<<<proc[p].job, 1>>>>

\* C2: once the shell has run its close loop and every stage process of the
\* pipeline has finished its wiring, the write end of pipe i is held only by
\* stage i, as its standard output, and the read end only by stage i+1, as
\* its standard input; so once stage i has ended, for whatever reason, no
\* write end of pipe i is open anywhere and its reader sees end-of-file.
C2_PipeEndsOnlyAtNeighbours ==
    \A j \in JobIds :
        (jobs[j].closed /\ \A q \in ProcsOf(j) : proc[q].wired \/ ~Alive(q)) =>
            \A k \in 1..Len(jobs[j].pipes) :
                LET w == WriteEnd(jobs[j].pipes[k])
                    r == ReadEnd(jobs[j].pipes[k])
                IN  /\ w \notin shellfds
                    /\ r \notin shellfds
                    /\ \A q \in Pids :
                         /\ Holds(q, w) =>
                              /\ proc[q].job = j /\ proc[q].idx = k
                              /\ proc[q].out = w /\ proc[q].in # w
                              /\ w \notin proc[q].fds
                         /\ Holds(q, r) =>
                              /\ proc[q].job = j /\ proc[q].idx = k + 1
                              /\ proc[q].in = r /\ proc[q].out # r
                              /\ r \notin proc[q].fds
                    /\ (\A q \in ProcsOf(j) : proc[q].idx = k => ~Alive(q)) =>
                         Holders(w) = {}

\* the first stage ended with "command not found" and the second stage runs,
\* reading from a pipe of which no write end is open any more
C2_Witness ==
    \E p, q \in Pids :
        /\ proc[p].idx = 1 /\ proc[p].st = "zombie"
        /\ proc[p].err = <<NotFoundMsg(<<"n">>)>>
        /\ proc[q].idx = 2 /\ proc[q].st = "running"
        /\ proc[p].job = proc[q].job
        /\ jobs[proc[q].job].closed
        /\ proc[q].in = ReadEnd(<<proc[q].job, 1>>)
        /\ Holders(WriteEnd(<<proc[q].job, 1>>)) = {}

\* the processes waited for so far are the stages 1..r, in this order
ReapedInOrder ==
    pc = "wait" =>
        LET f == jobs[njobs]
        IN  \A k \in 1..Len(f.pids) :
                IF k <= Len(f.reaped)
                THEN \A p \in ProcsOf(njobs) : proc[p].idx # k
                ELSE /\ proc[f.pids[k]].job = njobs
                     /\ proc[f.pids[k]].idx = k

\* a process-table entry is released only by the wait loop, and only the
\* entry of the stage that is next in spawn order
ReapStep ==
    \A p \in Pids :
        (proc[p].st = "zombie" /\ proc'[p].st = "none" /\ pc' # "done") =>
            /\ pc = "wait"
            /\ proc[p].job = njobs
            /\ proc[p].idx = Len(jobs[njobs].reaped) + 1

\* C3 as stated: while the shell is about to read a line, no process of a
\* foreground pipeline is left that was not waited for.
C3_AsStated ==
    pc = "read" =>
        \A j \in JobIds : ~jobs[j].background => ProcsOf(j) = {}

\* C3: execute_pipeline returns from a foreground pipeline only when every
\* one of its processes has terminated and was waited for, unless an
\* interrupt makes the shell abandon the call; the processes are waited for
\* in spawn order, which is stage order, whatever the order they end in.
C3_ForegroundWaitsInOrder ==
    /\ [](\A j \in JobIds :
            (jobs[j].state = "returned" /\ ~jobs[j].background) =>
                ProcsOf(j) = {})
    /\ [](pc = "read" =>
            \A j \in JobIds : jobs[j].state # "active")
    /\ []ReapedInOrder
    /\ [][ReapStep]_vars

\* the shell has waited for stage 1 and waits for stage 2, which still runs,
\* while stage 3 has ended already
C3_Witness ==
    /\ pc = "wait"
    /\ Len(jobs[njobs].pids) = 3
    /\ Len(jobs[njobs].reaped) = 1
    /\ proc[jobs[njobs].pids[2]].st = "running"
    /\ proc[jobs[njobs].pids[3]].st = "zombie"

\* what is to be reported of a process that ended with status st
Expected(st) ==
    CASE st.kind = "exit" /\ st.code = 0 -> <<>>
      [] st.kind = "exit" /\ st.code # 0 -> <<ExitCodeMsg(st.code)>>
      [] st.kind = "signal" -> <<AbnormalMsg>>

\* C4: when a process of a foreground pipeline is waited for, the shell
\* reports nothing if it exited with status 0, exactly the exit-code line
\* with c if it exited with status c # 0, and exactly the line "Program
\* terminated abnormally." if a signal ended it.
C4_OneReportPerStatus ==
    [][\A p \in Pids :
          (proc[p].st = "zombie" /\ proc'[p].st = "none" /\ pc' # "done") =>
              stderr' = stderr \o Expected(proc[p].status)]_vars

\* a three-stage pipeline has returned: its stages ended with status 0, with
\* status 2 and by a signal
C4_Witness ==
    /\ pc = "read"
    /\ njobs > 0
    /\ jobs[njobs].state = "returned"
    /\ Len(jobs[njobs].pipes) = 2
    /\ stderr = <<ExitCodeMsg(2), AbnormalMsg>>

\* an interrupt hit call j: the shell abandoned it, or one of its stage
\* processes fell back into the read loop
Disturbed(j) ==
    \/ jobs[j].state = "interrupted"
    \/ \E p \in ProcsOf(j) : proc[p].stray

C6_BackgroundReturnsAtOnce ==
    /\ [](InCall =>
            /\ jobs[njobs].background <=> EndsWith(Strip(line), "&")
            /\ jobs[njobs].background =>
                   pc # "wait" /\ stderr = <<>> /\ jobs[njobs].reaped = <<>>)
    /\ [][(InCall /\ jobs[njobs].background /\ pc' = "read") =>
              /\ pc = "close" \/ jobs'[njobs].state = "interrupted"
              /\ proc' = proc
              /\ stderr' = <<>>]_vars

\* the shell is back at reading lines, having returned from a background
\* pipeline of which a process still runs
C6_Witness ==
    /\ pc = "read"
    /\ \E p \in Pids :
        /\ proc[p].st = "running"
        /\ jobs[proc[p].job].background
        /\ jobs[proc[p].job].state = "returned"

\* C7 as stated: every process that has terminated is eventually waited for
\* (its process-table entry is released) while the shell runs.
C7_AsStated ==
    \A p \in Pids : (proc[p].st = "zombie") ~> (proc[p].st # "zombie")

\* the words of a stage
Tokens(part) == SplitWS(part)

\* the stages of a line as written: the segments between the | signs of the
\* trimmed line without its trailing &
Segments(l) == SplitOn(Body(l), "|")

\* a stage of the line ends with a redirection operator
DanglingRedirect(l) ==
    \E k \in 1..Len(Segments(l)) :
        LET t == Tokens(Segments(l)[k])
        IN  t # <<>> /\ t[Len(t)] \in {LT, GT}

\* C8 as stated: after a line with a redirection operator as the last token
\* of a stage the shell is reading lines again, and nothing was executed.
C8_AsStated ==
    DanglingRedirect(line) => pc = "read" /\ ended = ""

\* the words of a stage that are neither a redirection operator nor the
\* path that follows one
RECURSIVE Words(_)
Words(t) ==
    IF t = <<>> THEN <<>>
    ELSE IF Head(t) \in {LT, GT}
         THEN IF Len(t) >= 2 THEN Words(Tail(Tail(t))) ELSE <<>>
         ELSE <<Head(t)>> \o Words(Tail(t))

\* a stage of the line has no command token
StageWithoutCommand(l) ==
    \E k \in 1..Len(Segments(l)) : Words(Tokens(Segments(l)[k])) = <<>>

\* C9 as stated: a line with a stage that has no command token is rejected
\* and the loop continues: it never ends the shell.
C9_AsStated ==
    (line # <<>> /\ StageWithoutCommand(line)) => pc # "done"

\* C10 as stated: the shell process ends only by the exit built-in or at
\* the end of its input.
C10_AsStated ==
    ended \in {"", "exit", "eof"}

\* C11: the built-ins are consulted only for a pipeline of one stage.  For
\* every line of two or more stages the dispatcher finds no built-in, even
\* when a stage is named exit or cd: the shell is never ended by exit and its
\* working directory never changed by such a line (/t is named only in the
\* line "cd /t|a"), and the whole pipeline is what the executor is given.
\* For a line of one stage with any other command the dispatcher finds no
\* built-in either.
C11_BuiltinsOnlyAlone ==
    /\ \A e \in BuiltinInputs :
         e.parsed.kind = "ok" =>
            LET pl == e.parsed.pipeline
            IN  /\ Len(pl) >= 2 => Builtin(pl) = None
                /\ (Len(pl) = 1 /\ pl[1].argv[1] \notin {EXIT, CD}) =>
                       Builtin(pl) = None
    /\ ended = "exit" => Len(Segments(line)) = 1
    /\ cwd # <<"/", "t">>
    /\ InCall => jobs[njobs].pipeline = parse_line(line).pipeline

\* the pipeline "cd /t|a" is executed: its first stage is a process, which
\* found no command cd, and the second stage runs
C11_Witness ==
    /\ InCall
    /\ Len(jobs[njobs].pipeline) = 2
    /\ jobs[njobs].pipeline[1].argv = <<CD, <<"/", "t">>>>
    /\ \E p, q \in ProcsOf(njobs) :
        /\ proc[p].idx = 1
        /\ proc[p].err = <<NotFoundMsg(CD)>>
        /\ proc[q].idx = 2
        /\ proc[q].st = "running"

\* the command of process p cannot be started: no executable is found for
\* its name, or execve of the file found fails
CannotStart(p) ==
    LET path == resolve_path(proc[p].cmd.argv[1])
    IN  path = None \/ path \in ExecFails

\* C12: a stage whose command cannot be resolved, or whose exec fails,
\* writes "<name>: command not found" and exits with status 1; its image is
\* never replaced (it is never a running program).  The failure touches
\* nothing else: the step leaves every other process, the shell and its
\* bookkeeping as they were, and when the spawn loop is over the shell has
\* spawned one process for each stage of the pipeline.
C12_CommandNotFound ==
    /\ [](\A p \in Pids : proc[p].st = "running" => ~CannotStart(p))
    /\ []((pc \in {"close", "wait"}) =>
              Len(jobs[njobs].pids) = Len(jobs[njobs].pipeline))
    /\ [][\A p \in Pids :
            (/\ proc[p].st = "resolve"
             /\ proc'[p].st \notin {"resolve", "readloop", "none"}
             /\ CannotStart(p)) =>
                /\ proc'[p].st = "zombie"
                /\ proc'[p].status = Exited(1)
                /\ proc'[p].err =
                       proc[p].err \o <<NotFoundMsg(proc[p].cmd.argv[1])>>
                /\ \A q \in Pids \ {p} : proc'[q] = proc[q]
                /\ UNCHANGED <<pc, ended, jobs, njobs, shellfds, stderr,
                               files, cwd>>]_vars

\* "n | a": the first stage found no command n and ended with status 1, the
\* second stage runs its program, and the shell waits
C12_Witness ==
    /\ pc = "wait"
    /\ Len(jobs[njobs].pipeline) = 2
    /\ \E p, q \in ProcsOf(njobs) :
        /\ proc[p].idx = 1
        /\ proc[p].st = "zombie"
        /\ proc[p].status = Exited(1)
        /\ proc[p].err = <<NotFoundMsg(<<"n">>)>>
        /\ proc[q].idx = 2
        /\ proc[q].st = "running"

\* C13 as stated: every failing event emits exactly one diagnostic line.  A
\* stage process that fails before its program runs (its redirection cannot
\* be opened, or its command cannot be started) has written exactly one line
\* more when it ends, and the shell writes exactly one line when it reaps a
\* process that ended with a nonzero status or by a signal.
C13_AsStated ==
    [][/\ \A p \in Pids :
            (proc[p].st \in {"setup", "resolve"} /\ proc'[p].st = "zombie") =>
                Len(proc'[p].err) = Len(proc[p].err) + 1
       /\ \A p \in Pids :
            (/\ proc[p].st = "zombie"
             /\ proc'[p].st = "none"
             /\ pc' # "done"
             /\ proc[p].status # Exited(0)) =>
                Len(stderr') = Len(stderr) + 1]_vars

\* a redirection of process p names a file that cannot be opened
OpenFails(p) ==
    LET cmd == proc[p].cmd
    IN  \/ cmd.stdin # None /\ files[cmd.stdin] = "absent"
        \/ cmd.stdout # None /\ cmd.stdout \in ReadOnly

\* C14: a redirection that cannot be opened ends the affected stage only.
\* The stage ends with status 1 before its descriptors are wired and before
\* any command is resolved or run, and it has written a report; the step
\* changes no other process, does not end the shell and leaves the shell
\* where it was in execute_pipeline, so the sibling stages run and the shell
\* goes on to wait for the pipeline.
C14_OpenFailureEndsStageOnly ==
    [][\A p \in Pids :
          (/\ proc[p].st = "setup"
           /\ proc'[p].st \notin {"setup", "readloop", "none"}
           /\ OpenFails(p)) =>
              /\ proc'[p].st = "zombie"
              /\ proc'[p].status = Exited(1)
              /\ ~proc'[p].wired
              /\ Len(proc'[p].err) > Len(proc[p].err)
              /\ \A q \in Pids \ {p} : proc'[q] = proc[q]
              /\ UNCHANGED <<pc, ended, jobs, njobs, shellfds, stderr,
                             files, cwd>>]_vars

\* "a < g|a": the first stage could not open g and ended unwired, the
\* shell has waited for it and reported its status, and it now waits for the
\* second stage, whose program runs
C14_Witness ==
    /\ pc = "wait"
    /\ ended = ""
    /\ Len(jobs[njobs].pipeline) = 2
    /\ jobs[njobs].pipeline[1].stdin = <<"g">>
    /\ files[<<"g">>] = "absent"
    /\ Len(jobs[njobs].reaped) = 1
    /\ stderr = <<ExitCodeMsg(1)>>
    /\ \E q \in ProcsOf(njobs) : proc[q].idx = 2 /\ proc[q].st = "running"

\* the descriptors of process p that are ends of pipes of call j
EndsHeld(p, j) ==
    { d \in proc[p].fds \cup {proc[p].in, proc[p].out} :
        d.kind \in {"r", "w"} /\ d.pipe[1] = j }

\* C15 as stated: pipelines that overlap in time have disjoint pipe
\* resources: while a process of an earlier pipeline is alive, no process of
\* a later pipeline holds a descriptor of one of the earlier pipeline's pipes.
C15_AsStated ==
    \A p, q \in Pids :
        (Alive(p) /\ Alive(q) /\ proc[q].job < proc[p].job) =>
            EndsHeld(p, proc[q].job) = {}

\* the path that the tokens t of a stage give for operator op: operators
\* are met from left to right, each takes the token after it, and the last
\* one of a kind counts
RECURSIVE PathFor(_, _)
PathFor(t, op) ==
    IF Len(t) < 2 THEN None
    ELSE IF Head(t) \in {LT, GT}
         THEN LET rest == PathFor(Tail(Tail(t)), op)
              IN  IF rest # None \/ Head(t) # op THEN rest ELSE t[2]
         ELSE PathFor(Tail(t), op)

\* C16: when parse_line returns a pipeline for a line, the stages are the
\* segments between the | signs, in their order; in each stage a < or >
\* token takes the token after it as the input or output path, and neither
\* of the two is in argv; every other token is in argv, in the order
\* written; and background is set exactly when the trimmed line ends with &.
C16_ParseRule ==
    (pc # "read" /\ ended = "") =>
        LET f == jobs[njobs]
            segs == Segments(line)
        IN  /\ Len(f.pipeline) = Len(segs)
            /\ \A k \in 1..Len(segs) :
                 LET t == Tokens(segs[k])
                 IN  /\ f.pipeline[k].argv = Words(t)
                     /\ f.pipeline[k].stdin = PathFor(t, LT)
                     /\ f.pipeline[k].stdout = PathFor(t, GT)
            /\ f.background = (Strip(line)[Len(Strip(line))] = "&")

\* the line "a < a" was parsed: one stage a with input path a
C16_Witness ==
    /\ pc = "fork"
    /\ line = <<"a", " ", "<", " ", "a", "\n">>
    /\ jobs[njobs].pipeline =
           <<[argv |-> <<<<"a">>>>, stdin |-> <<"a">>, stdout |-> None]>>
    /\ ~jobs[njobs].background

\* the k-th candidate for a name without slash: directory, "/", name
Candidate(k, name) == SplitOn(PATH, ":")[k] \o <<"/">> \o name

\* path is what the name is to resolve to: the name itself when it has a
\* slash and is executable; else the first executable candidate
ResolvesTo(name, path) ==
    IF "/" \in Range(name)
    THEN path = name /\ name \in X_OK
    ELSE \E k \in 1..Len(SplitOn(PATH, ":")) :
            /\ path = Candidate(k, name)
            /\ path \in X_OK
            /\ \A j \in 1..(k - 1) : Candidate(j, name) \notin X_OK

\* the name is to resolve to nothing
Unresolvable(name) ==
    IF "/" \in Range(name)
    THEN name \notin X_OK
    ELSE \A k \in 1..Len(SplitOn(PATH, ":")) : Candidate(k, name) \notin X_OK

\* C17: a name with a slash resolves to itself if and only if it is
\* executable, whatever the directories of PATH hold; a name without a
\* slash resolves to the first directory of PATH, in order, joined with "/"
\* and the name, that is executable, and to nothing if and only if there is
\* none.  Seen at the step in which a stage resolves its command: the
\* program image it gets is that path, and it ends with "command not found"
\* only if the name resolves to nothing or the file found cannot be run.
C17_ResolvePath ==
    [][\A p \in Pids :
          LET name == proc[p].cmd.argv[1]
          IN  /\ (proc[p].st = "resolve" /\ proc'[p].st = "running") =>
                    ResolvesTo(name, proc'[p].image)
              /\ (proc[p].st = "resolve" /\ proc'[p].st = "zombie") =>
                    \/ Unresolvable(name)
                    \/ \E path \in ExecFails : ResolvesTo(name, path)]_vars

\* a is in both directories of PATH and runs from the first; s/a is not
\* executable, though /b/s/a is, and was not found
C17_Witness ==
    \E p, q \in Pids :
        /\ proc[p].st = "running"
        /\ proc[p].cmd.argv = <<<<"a">>>>
        /\ proc[p].image = <<"/", "b", "/", "a">>
        /\ proc[q].st = "zombie"
        /\ proc[q].err = <<NotFoundMsg(<<"s", "/", "a">>)>>

\* process p has done its wiring: it is about to exec, or has
AtExec(p) == proc[p].st \in {"resolve", "running"}

\* C18 as stated: a stage that is not the first and has an input redirection
\* has the named file as its standard input at exec.
C18_AsStated ==
    \A p \in Pids :
        (AtExec(p) /\ proc[p].idx > 1 /\ proc[p].cmd.stdin # None) =>
            proc[p].in = FileOf(proc[p].cmd.stdin)

\* C18, amended: a stage that is not the first and has an input redirection
\* has the read end of the pipe before it as its standard input at exec, not
\* the named file; the redirection decides only for the first stage.
C18_PipeWinsStdin ==
    \A p \in Pids :
        (AtExec(p) /\ proc[p].cmd.stdin # None) =>
            proc[p].in = IF proc[p].idx > 1
                         THEN ReadEnd(<<proc[p].job, proc[p].idx - 1>>)
                         ELSE FileOf(proc[p].cmd.stdin)

\* the second stage of "a|a < f" runs with the pipe as its standard input
C18_Witness ==
    \E p \in Pids :
        /\ proc[p].st = "running"
        /\ proc[p].idx = 2
        /\ proc[p].cmd.stdin = <<"f">>
        /\ proc[p].in = ReadEnd(<<proc[p].job, 1>>)

\* process p, not the last stage and with an output redirection, does its
\* wiring in this step
WiresRedirectedInterior(p) ==
    /\ proc[p].st = "setup"
    /\ proc'[p].st = "resolve"
    /\ proc[p].idx < proc[p].n
    /\ proc[p].cmd.stdout # None

\* C19 as stated: a stage that is not the last and has an output redirection
\* gets the write end of its pipe as standard output, and the named file is
\* left as it was.
C19_AsStated ==
    [][\A p \in Pids :
          WiresRedirectedInterior(p) =>
              /\ proc'[p].out = WriteEnd(<<proc[p].job, proc[p].idx>>)
              /\ files' = files]_vars

\* C19, amended: a stage that is not the last and has an output redirection
\* gets the write end of its pipe as standard output; the named file is
\* opened all the same, so it is created if absent and emptied if present,
\* and no other file changes.
C19_PipeWinsStdout ==
    [][\A p \in Pids :
          WiresRedirectedInterior(p) =>
              /\ proc'[p].out = WriteEnd(<<proc[p].job, proc[p].idx>>)
              /\ files' = [files EXCEPT ![proc[p].cmd.stdout] = "trunc"]]_vars

\* the first stage of "a > g|a" runs with the pipe as its standard output,
\* and g, which did not exist, is there and empty
C19_Witness ==
    \E p \in Pids :
        /\ proc[p].st = "running"
        /\ proc[p].idx = 1
        /\ proc[p].n = 2
        /\ proc[p].cmd.stdout = <<"g">>
        /\ proc[p].out = WriteEnd(<<proc[p].job, 1>>)
        /\ files[<<"g">>] = "trunc"

\* C20 as stated: when the spawn loop is over the shell has one child per
\* stage, in the order of the stages; a stage process is setting up, running
\* its program or has ended, and never is back in the read loop; and the
\* process of a single stage without redirection has no pipe and the shell's
\* standard streams.
C20_AsStated ==
    /\ (pc \in {"close", "wait"}) =>
          LET f == jobs[njobs]
          IN  /\ Len(f.pids) = Len(f.pipeline)
              /\ \A k \in 1..Len(f.pids) :
                    proc[f.pids[k]].st # "none" =>
                        proc[f.pids[k]].job = njobs /\ proc[f.pids[k]].idx = k
    /\ \A p \in Pids :
          (/\ AtExec(p)
           /\ proc[p].n = 1
           /\ proc[p].cmd.stdin = None
           /\ proc[p].cmd.stdout = None) =>
              /\ proc[p].in = Tty
              /\ proc[p].out = Tty
              /\ jobs[proc[p].job].pipes = <<>>
    /\ \A p \in Pids : proc[p].st # "readloop"

====
